---- MODULE Spec2Model ----
(***************************************************************************)
(* A model of mcp-graphql-forge's tool generator (tool-generator.ts): the   *)
(* two module-level selection caches, the recursive field-selection        *)
(* synthesis (generateFullFieldSelection / generateFieldSelection /        *)
(* getMinimalFieldSelection), the registry build                           *)
(* (generateMCPToolsFromSchema) and the JSON schema of the arguments        *)
(* (getJSONSchemaType); of the servers that load the registry and handle   *)
(* ListTools and CallTool requests (cli.ts, http-server.ts); and of the    *)
(* /mcp routes and the session map of cli.ts' HTTP mode.                   *)
(*                                                                         *)
(* A selection string is modelled as the sequence of its lexical pieces:   *)
(* "{", "}", a field name, a single space " ", a newline "\n" and one      *)
(* indentation unit "  ".  Concatenating the pieces gives the string the   *)
(* code builds, so two selections are byte-identical iff their sequences   *)
(* are equal.  The empty string is <<>>.                                   *)
(***************************************************************************)
EXTENDS Integers, Sequences, FiniteSets, TLC

VARIABLES
    input,      \* the introspection result being built: [s, order]
    pc,         \* position inside generateMCPToolsFromSchema
    i,          \* index of the running for-loop (type map / root fields)
    stack,      \* activation records of generateFullFieldSelection
    full,       \* typeFieldSelectionCache    (type name -> selection)
    minimal,    \* minimalFieldSelectionCache (type name -> selection)
    tools,      \* the local array `tools` of generateMCPToolsFromSchema
    snap,       \* history: what the first build after start-up produced
    stale,      \* history: the type names whose entry, left in the full
                \* cache by the build before, differs from snap's
    jin,        \* getJSONSchemaType: the schema and type of the outermost call
    jpc,        \* getJSONSchemaType: position of the running activation
    jcall,      \* getJSONSchemaType: the type the activation being entered got
    jstack,     \* getJSONSchemaType: the activations waiting for a nested call
    jvisited,   \* getJSONSchemaType: the `visited` set shared by the calls
    jret,       \* getJSONSchemaType: the value the last activation returned
    server,     \* which server program runs: cli.ts or http-server.ts
    registry,   \* this.tools of the server
    phase,      \* how far start() has got: constructed, loaded, connected
    request,    \* the CallTool request being handled (or handled last)
    missingParams, \* the handler's local: what validateRequiredParameters returned
    upstream,   \* what the handler sent to graphqlClient for that request
    thrown,     \* what the handler's catch block caught for that request
    reply,      \* what the handler returned for that request
    listed,     \* what the ListTools handler returned and is being sent
    transports, \* startHttpServer: the map `transports` (session id -> transport)
    sessions,   \* the StreamableHTTPServerTransports created so far
    response    \* what the /mcp route handler did with the last request

buildVars == <<input, pc, i, stack, full, minimal, tools, snap, stale>>
jsVars == <<jin, jpc, jcall, jstack, jvisited, jret>>
httpVars == <<transports, sessions, response>>
srvVars == <<server, registry, phase, request, missingParams, upstream, thrown,
             reply, listed, httpVars>>
vars == <<buildVars, jsVars, srvVars>>

----------------------------------------------------------------------------
(* GraphQL type graphs                                                      *)

\* A type reference: wrappers outermost first around a named type.
Ty(w, n) == [w |-> w, n |-> n]
NN == "NonNull"
LI == "List"

\* An argument or an input field; description "" stands for none.
ArgD(name, w, n, hasDefault, description) ==
    [name |-> name, type |-> Ty(w, n), hasDefault |-> hasDefault,
     description |-> description]
Arg(name, w, n, hasDefault) == ArgD(name, w, n, hasDefault, "")
FA(name, w, n, args) == [name |-> name, type |-> Ty(w, n), args |-> args]
F(name, w, n) == FA(name, w, n, <<>>)

Obj(fields)   == [kind |-> "OBJECT", fields |-> fields]
Iface(fields) == [kind |-> "INTERFACE", fields |-> fields]
Union         == [kind |-> "UNION", fields |-> <<>>]
Scalar        == [kind |-> "SCALAR", fields |-> <<>>]
Enum          == [kind |-> "ENUM", fields |-> <<>>]
EnumOf(values) == [kind |-> "ENUM", fields |-> <<>>, values |-> values]
InputObj(fields) == [kind |-> "INPUT_OBJECT", fields |-> fields]

Scalars == ("ID" :> Scalar) @@ ("String" :> Scalar)

\* The elements of a sequence.
Range(seq) == {seq[k] : k \in 1..Len(seq)}

\* All orders in which a type map can enumerate the names of sequence s.
Perms(s) ==
    { p \in [1..Len(s) -> {s[k] : k \in 1..Len(s)}] :
        \A a, b \in 1..Len(s) : a # b => p[a] # p[b] }

\* Length of the acyclic chain of object types in ChainShape.
ChainLen == 6
ChainNames == <<"A", "B", "C", "D", "E", "F", "G", "H">>

\* Query.user(id: ID!): User, User {id posts: [Post]}, Post {id author: User}
BlogShape ==
    [ types |-> Scalars @@
        ("Query" :> Obj(<< FA("user", <<>>, "User",
                              << Arg("id", <<NN>>, "ID", FALSE) >>) >>)) @@
        ("User" :> Obj(<< F("id", <<>>, "ID"), F("posts", <<LI>>, "Post") >>)) @@
        ("Post" :> Obj(<< F("id", <<>>, "ID"), F("author", <<>>, "User") >>)),
      query |-> "Query", mutation |-> "",
      orders |-> Perms(<<"Query", "User", "Post">>),
      rest |-> <<"ID", "String">> ]

\* Several root fields returning User, a Mutation type, documentId, a
\* self-reference, non-null and list wrappers, and an interface no field
\* refers to.
ForumShape ==
    [ types |-> Scalars @@
        ("Query" :> Obj(<< FA("user", <<>>, "User",
                              << Arg("id", <<NN>>, "ID", FALSE) >>),
                           F("users", <<NN, LI, NN>>, "User"),
                           F("post", <<>>, "Post"),
                           F("version", <<NN>>, "String") >>)) @@
        ("Mutation" :> Obj(<< FA("createUser", <<NN>>, "User",
                              << Arg("name", <<NN>>, "String", FALSE),
                                 Arg("role", <<NN>>, "String", TRUE),
                                 Arg("email", <<>>, "String", FALSE) >>) >>)) @@
        ("User" :> Obj(<< F("documentId", <<NN>>, "ID"),
                          F("id", <<>>, "ID"),
                          F("name", <<>>, "String"),
                          F("friend", <<>>, "User"),
                          F("posts", <<NN, LI, NN>>, "Post") >>)) @@
        ("Post" :> Obj(<< F("documentId", <<NN>>, "ID"),
                          F("title", <<>>, "String"),
                          F("author", <<NN>>, "User") >>)) @@
        ("Node" :> Iface(<< F("id", <<>>, "ID") >>)),
      query |-> "Query", mutation |-> "Mutation",
      orders |-> { <<"Query", "Mutation", "User", "Post">>,
                   <<"Post", "User", "Mutation", "Query">>,
                   <<"User", "Query", "Post", "Mutation">>,
                   <<"Mutation", "Post", "Query", "User">> },
      rest |-> <<"Node", "ID", "String">> ]

\* Direct self-reference with and without an id field.
TreeShape ==
    [ types |-> Scalars @@
        ("Query" :> Obj(<< F("node", <<>>, "Node"),
                           F("category", <<>>, "Category"),
                           F("loner", <<>>, "Loner") >>)) @@
        ("Node" :> Obj(<< F("id", <<NN>>, "ID"),
                          F("parent", <<>>, "Node"),
                          F("children", <<NN, LI, NN>>, "Node") >>)) @@
        ("Category" :> Obj(<< F("name", <<>>, "String"),
                              F("parent", <<>>, "Category") >>)) @@
        ("Loner" :> Obj(<< F("self", <<>>, "Loner") >>)),
      query |-> "Query", mutation |-> "",
      orders |-> { <<"Query", "Node", "Category", "Loner">>,
                   <<"Loner", "Category", "Node", "Query">> },
      rest |-> <<"ID", "String">> ]

\* Query.a: A, A {id name next: B}, B {id name next: C}, ... : an acyclic
\* chain of ChainLen object types.
ChainType(k) ==
    Obj(<< F("id", <<>>, "ID"), F("name", <<>>, "String") >> \o
        (IF k < ChainLen THEN << F("next", <<>>, ChainNames[k + 1]) >> ELSE <<>>))
ChainSeq == [k \in 1..ChainLen |-> ChainNames[k]]
ChainShape ==
    [ types |-> [n \in {"ID", "String", "Query"} \cup
                       {ChainNames[k] : k \in 1..ChainLen} |->
                   IF n \in {"ID", "String"} THEN Scalar
                   ELSE IF n = "Query" THEN Obj(<< F("a", <<>>, "A") >>)
                   ELSE ChainType(CHOOSE k \in 1..ChainLen : ChainNames[k] = n)],
      query |-> "Query", mutation |-> "",
      orders |-> { <<"Query">> \o ChainSeq,
                   ChainSeq \o <<"Query">>,
                   [k \in 1..ChainLen |-> ChainNames[ChainLen + 1 - k]] \o <<"Query">> },
      rest |-> <<"ID", "String">> ]

\* A mutual cycle of types that have neither id nor documentId.
NoIdShape ==
    [ types |-> Scalars @@
        ("Query" :> Obj(<< F("x", <<>>, "X") >>)) @@
        ("X" :> Obj(<< F("name", <<>>, "String"), F("y", <<>>, "Y") >>)) @@
        ("Y" :> Obj(<< F("title", <<>>, "String"), F("x", <<>>, "X") >>)),
      query |-> "Query", mutation |-> "",
      orders |-> { <<"Query", "X", "Y">>, <<"Y", "X", "Query">> },
      rest |-> <<"ID", "String">> ]

\* Nested lists, a union, an interface and an enum.
GridShape ==
    [ types |-> Scalars @@
        ("Query" :> Obj(<< F("grid", <<NN, LI, NN, LI, NN>>, "Cell"),
                           F("cell", <<>>, "Cell"),
                           F("cells", <<LI>>, "Cell"),
                           F("search", <<LI, NN>>, "SearchResult"),
                           F("item", <<>>, "Item") >>)) @@
        ("Cell" :> Obj(<< F("id", <<NN>>, "ID"),
                          F("status", <<>>, "Status"),
                          F("rows", <<LI, LI>>, "Item"),
                          F("owner", <<NN>>, "Item"),
                          F("hit", <<>>, "SearchResult") >>)) @@
        ("Item" :> Iface(<< F("documentId", <<NN>>, "ID"),
                            F("title", <<>>, "String") >>)) @@
        ("SearchResult" :> Union) @@
        ("Status" :> Enum),
      query |-> "Query", mutation |-> "",
      orders |-> { <<"Query", "Cell", "Item">>, <<"Item", "Cell", "Query">> },
      rest |-> <<"SearchResult", "Status", "ID", "String">> ]

\* A three-type cycle A -> B -> C -> A.
TriShape ==
    [ types |-> Scalars @@
        ("Query" :> Obj(<< F("a", <<>>, "A") >>)) @@
        ("A" :> Obj(<< F("id", <<>>, "ID"), F("b", <<>>, "B") >>)) @@
        ("B" :> Obj(<< F("id", <<>>, "ID"), F("c", <<>>, "C") >>)) @@
        ("C" :> Obj(<< F("id", <<>>, "ID"), F("a", <<LI>>, "A") >>)),
      query |-> "Query", mutation |-> "",
      orders |-> { <<"Query", "A", "B", "C">>, <<"C", "B", "A", "Query">> },
      rest |-> <<"ID", "String">> ]

\* A root field that returns an introspection type, and a payload type that
\* refers back to Query.
MetaShape ==
    [ types |-> Scalars @@
        ("Query" :> Obj(<< F("a", <<>>, "A"), F("meta", <<>>, "__Type") >>)) @@
        ("A" :> Obj(<< F("id", <<>>, "ID"), F("b", <<>>, "B") >>)) @@
        ("B" :> Obj(<< F("id", <<>>, "ID"), F("c", <<>>, "C") >>)) @@
        ("C" :> Obj(<< F("id", <<>>, "ID"), F("d", <<>>, "D") >>)) @@
        ("D" :> Obj(<< F("id", <<>>, "ID"), F("query", <<>>, "Query") >>)) @@
        ("__Type" :> Obj(<< F("kind", <<NN>>, "String"),
                            F("name", <<>>, "String"),
                            F("fields", <<LI, NN>>, "__Field") >>)) @@
        ("__Field" :> Obj(<< F("name", <<NN>>, "String"),
                             F("type", <<NN>>, "__Type") >>)),
      query |-> "Query", mutation |-> "",
      orders |-> { <<"Query", "A", "B", "C", "D">>, <<"A", "B", "C", "D", "Query">> },
      rest |-> <<"__Type", "__Field", "ID", "String">> ]

\* A Query field and a Mutation field of the same name, a Subscription
\* type, arguments with and without defaults, and input-object types: one
\* that refers to itself, two that refer to each other, non-null input
\* fields with a default.
ShopShape ==
    [ types |-> Scalars @@
        ("Int" :> Scalar) @@ ("Float" :> Scalar) @@ ("Boolean" :> Scalar) @@
        ("Date" :> Scalar) @@
        ("Sort" :> EnumOf(<<"ASC", "DESC">>)) @@
        ("Query" :> Obj(<< FA("product", <<>>, "Product",
                              << Arg("id", <<NN>>, "ID", FALSE),
                                 Arg("sku", <<NN>>, "String", FALSE) >>),
                           FA("search", <<NN, LI, NN>>, "Product",
                              << ArgD("filter", <<>>, "Filter", FALSE, "Filter to apply"),
                                 Arg("limit", <<NN>>, "Int", TRUE),
                                 Arg("tags", <<NN, LI, NN>>, "String", FALSE),
                                 Arg("sort", <<>>, "Sort", TRUE) >>) >>)) @@
        ("Mutation" :> Obj(<< FA("product", <<>>, "Product",
                                 << Arg("input", <<NN>>, "ProductInput", FALSE),
                                    Arg("dryRun", <<NN>>, "Boolean", TRUE) >>),
                              FA("resize", <<NN>>, "Boolean",
                                 << Arg("dims", <<LI, NN>>, "DimsInput", FALSE),
                                    Arg("matrix", <<NN, LI, NN, LI, NN>>, "Int", FALSE) >>) >>)) @@
        ("Subscription" :> Obj(<< F("productAdded", <<>>, "Product") >>)) @@
        ("Product" :> Obj(<< F("id", <<NN>>, "ID"),
                             F("name", <<>>, "String"),
                             F("price", <<>>, "Float") >>)) @@
        ("Filter" :> InputObj(<< Arg("name", <<>>, "String", FALSE),
                                 Arg("and", <<LI, NN>>, "Filter", FALSE),
                                 ArgD("not", <<>>, "Filter", FALSE, "Negated filter"),
                                 Arg("sort", <<NN>>, "Sort", TRUE) >>)) @@
        ("ProductInput" :> InputObj(<< Arg("name", <<NN>>, "String", FALSE),
                                       Arg("price", <<NN>>, "Float", TRUE),
                                       Arg("tags", <<LI, NN>>, "String", FALSE),
                                       Arg("dims", <<NN>>, "DimsInput", FALSE),
                                       Arg("released", <<>>, "Date", FALSE) >>)) @@
        ("DimsInput" :> InputObj(<< Arg("width", <<NN>>, "Int", FALSE),
                                    Arg("unit", <<NN>>, "String", TRUE),
                                    Arg("of", <<>>, "ProductInput", FALSE) >>)),
      query |-> "Query", mutation |-> "Mutation",
      orders |-> { <<"Query", "Mutation", "Subscription", "Product">>,
                   <<"Product", "Subscription", "Mutation", "Query">> },
      rest |-> <<"Filter", "ProductInput", "DimsInput", "Sort", "Int", "Float",
                 "Boolean", "Date", "ID", "String">> ]

\* An introspection result whose queryType is null: the schema has a
\* Mutation type only.
RootlessShape ==
    [ types |-> Scalars @@
        ("Mutation" :> Obj(<< FA("ping", <<>>, "Pong",
                                 << Arg("msg", <<NN>>, "String", FALSE) >>) >>)) @@
        ("Pong" :> Obj(<< F("id", <<>>, "ID"), F("text", <<>>, "String") >>)),
      query |-> "", mutation |-> "Mutation",
      orders |-> { <<"Mutation", "Pong">>, <<"Pong", "Mutation">> },
      rest |-> <<"ID", "String">> ]

Shapes == << BlogShape, ForumShape, TreeShape, ChainShape, NoIdShape,
             GridShape, TriShape, MetaShape, ShopShape, RootlessShape >>

\* The introspection results a build may be given: a type graph together
\* with the order in which its type map enumerates the types.
Inputs ==
    UNION { { [s |-> k, order |-> o \o Shapes[k].rest] : o \in Shapes[k].orders } :
            k \in 1..Len(Shapes) }

NoInput == [s |-> 0, order |-> <<>>]

\* Payloads buildClientSchema rejects: one without __schema, and one whose
\* queryType names a type the type list does not hold.
MalformedInputs ==
    { [s |-> 0, order |-> <<>>, malformed |-> "no __schema"],
      [s |-> 0, order |-> <<>>, malformed |-> "unknown type: Query"] }
IsMalformed(inp) == "malformed" \in DOMAIN inp

\* buildClientSchema(introspectionResult)
Schema(inp) == Shapes[inp.s]
TypeDef(sch, n) == sch.types[n]
Fields(sch, n) == sch.types[n].fields

----------------------------------------------------------------------------
(* Selection strings                                                        *)

Empty == <<>>
SP == " "
NL == "\n"
IndentUnit == "  "

\* '  '.repeat(n)
Indent(n) == [k \in 1..n |-> IndentUnit]

RECURSIVE Join(_, _)
\* parts.join(sep) for a sequence of strings
Join(parts, sep) ==
    IF parts = <<>> THEN Empty
    ELSE IF Len(parts) = 1 THEN parts[1]
    ELSE parts[1] \o sep \o Join(Tail(parts), sep)

\* `${fieldName} ${selection}`
FieldWith(fieldName, selection) == <<fieldName, SP>> \o selection

\* '{ __typename }'
TypenameSelection == <<"{", SP, "__typename", SP, "}">>

\* The same block without its closing brace.
BlockSelectionUnclosed(sels, depth) ==
    <<"{", NL>> \o Indent(depth + 1) \o
    Join(sels, <<NL>> \o Indent(depth + 1)) \o
    <<NL>> \o Indent(depth)

\* `{\n${ind(depth+1)}${sels.join(`\n${ind(depth+1)}`)}\n${ind(depth)}}`
BlockSelection(sels, depth) ==
    <<"{", NL>> \o Indent(depth + 1) \o
    Join(sels, <<NL>> \o Indent(depth + 1)) \o
    <<NL>> \o Indent(depth) \o <<"}">>

----------------------------------------------------------------------------
(* tool-generator.ts                                                        *)

EmptyCache == [n \in {} |-> Empty]
Has(cache, n) == n \in DOMAIN cache
Set(cache, n, v) == (n :> v) @@ cache

\* The depth beyond which generateFullFieldSelection stops expanding.
MaxDepth == 3
DepthExceededLate(depth) == depth > MaxDepth + 1
DepthExceeded(depth) == depth > MaxDepth

IsNonNull(t) == t.w # <<>> /\ Head(t.w) = NN
IsList(t)    == t.w # <<>> /\ Head(t.w) = LI
OfType(t)    == [t EXCEPT !.w = Tail(t.w)]

\* if (isNonNullType(t)) t = t.ofType; if (isListType(t)) t = t.ofType;
\* if (isNonNullType(t)) t = t.ofType;
StripWrappers(t) ==
    LET a == IF IsNonNull(t) THEN OfType(t) ELSE t
        b == IF IsList(a) THEN OfType(a) ELSE a
    IN  IF IsNonNull(b) THEN OfType(b) ELSE b

\* isObjectType(t) || isInterfaceType(t), isUnionType(t), on a type reference
IsComposite(sch, t) == t.w = <<>> /\ TypeDef(sch, t.n).kind \in {"OBJECT", "INTERFACE"}
IsUnion(sch, t)     == t.w = <<>> /\ TypeDef(sch, t.n).kind = "UNION"

HasField(sch, n, f) == \E k \in 1..Len(Fields(sch, n)) : Fields(sch, n)[k].name = f

\* A minimal selection that looks for id before documentId.
MinimalIdFirst(sch, n) ==
    IF HasField(sch, n, "id") THEN <<"{", SP, "id", SP, "}">>
    ELSE IF HasField(sch, n, "documentId") THEN <<"{", SP, "documentId", SP, "}">>
    ELSE Empty

\* The selection getMinimalFieldSelection computes from the type's fields.
MinimalOf(sch, n) ==
    IF HasField(sch, n, "documentId") THEN <<"{", SP, "documentId", SP, "}">>
    ELSE IF HasField(sch, n, "id") THEN <<"{", SP, "id", SP, "}">>
    ELSE Empty

\* getMinimalFieldSelection: the value returned and the minimal cache after.
GetMinimal(minc, sch, n) ==
    IF Has(minc, n) THEN [val |-> minc[n], minimal |-> minc]
    ELSE [val |-> MinimalOf(sch, n), minimal |-> Set(minc, n, MinimalOf(sch, n))]

\* The head of generateFullFieldSelection(n, depth): a cache hit or the depth
\* ceiling returns at once (ret), otherwise the field loop starts (push).
EnterFull(fullc, minc, sch, n, depth) ==
    IF Has(fullc, n)
    THEN [ret |-> TRUE, val |-> fullc[n], full |-> fullc, minimal |-> minc]
    ELSE IF DepthExceeded(depth)
    THEN LET m == GetMinimal(minc, sch, n)
         IN  [ret |-> TRUE, val |-> m.val, full |-> Set(fullc, n, m.val),
              minimal |-> m.minimal]
    ELSE [ret |-> FALSE, val |-> Empty, full |-> fullc, minimal |-> minc]

Frame(n, depth) == [t |-> n, depth |-> depth, k |-> 1, sels |-> <<>>]

\* What the caller pushes for a nested object field once the nested
\* selection is known.
NestedEntry(fieldName, nested) ==
    IF nested # Empty THEN FieldWith(fieldName, nested) ELSE <<fieldName>>

\* The selection a finished field loop builds from its entries.
FinalSelection(sels, depth) ==
    IF Len(sels) > 0 THEN BlockSelection(sels, depth) ELSE Empty

\* typeName.startsWith('__')
IsIntrospectionName(n) == n \in {"__Type", "__Schema", "__Field"}

\* The root fields in the order the tools are generated: Query's, then
\* Mutation's.
RootFieldsOf(sch, root, op) ==
    IF root = "" THEN <<>>
    ELSE [k \in 1..Len(Fields(sch, root)) |-> [op |-> op, field |-> Fields(sch, root)[k]]]
QueryFieldsOnly(sch) == RootFieldsOf(sch, sch.query, "query")
RootFields(sch) ==
    RootFieldsOf(sch, sch.query, "query") \o RootFieldsOf(sch, sch.mutation, "mutation")

\* A tool name that leaves the operation type out.
ToolNameNoPrefix(op, fieldName) == fieldName
\* `${operationType}_${fieldName}`
ToolName(op, fieldName) == op \o "_" \o fieldName

\* isNonNullType(arg.type), whatever the default
NonNullArg(arg) == IsNonNull(arg.type)
\* isNonNullType(arg.type) && arg.defaultValue === undefined
RequiredArg(arg) == IsNonNull(arg.type) /\ ~arg.hasDefault

\* The names generateToolForField pushes to `required`, in argument order.
RequiredNames(args) ==
    LET req == SelectSeq(args, RequiredArg) IN [k \in 1..Len(req) |-> req[k].name]

\* inputSchema: the `required` key is present only when the list is not
\* empty.  (The properties are built by getJSONSchemaType, whose steps are
\* modelled below.)
InputSchema(args) ==
    IF Len(RequiredNames(args)) > 0
    THEN [type |-> "object", required |-> RequiredNames(args)]
    ELSE [type |-> "object"]

\* tool.inputSchema.required || []
RequiredParams(tool) ==
    IF "required" \in DOMAIN tool.inputSchema THEN tool.inputSchema.required
    ELSE <<>>

\* The MCPTool generateToolForField returns.
Tool(op, field, selection) ==
    [ name |-> ToolName(op, field.name),
      inputSchema |-> InputSchema(field.args),
      fieldName |-> field.name,
      operationType |-> op,
      args |-> field.args,
      returnType |-> field.type,
      fieldSelection |-> selection ]

NoSnap == [input |-> NoInput, full |-> EmptyCache, minimal |-> EmptyCache,
           tools |-> <<>>]

Top == stack[Len(stack)]
Pop == SubSeq(stack, 1, Len(stack) - 1)
S == Schema(input)

----------------------------------------------------------------------------
(* State machine                                                            *)

NoJson == [s |-> 0, type |-> Ty(<<>>, "")]
NoSchema == [type |-> "none"]
NoRequest == [name |-> "", args |-> [kind |-> "none"]]
NoReply == [isError |-> FALSE, text |-> ""]
NoList == [sent |-> FALSE, tools |-> <<>>]
NoTransports == [sid \in {} |-> 0]
NoHttp == [method |-> "", sid |-> "", initialize |-> FALSE, status |-> 0, routed |-> 0]
NoResponse == [status |-> 0, errors |-> <<>>]
NoError == [instanceOfError |-> FALSE, message |-> "", response |-> NoResponse]

\* The module has just been loaded: both caches are empty and nothing runs.
InitBuild ==
    /\ input = NoInput
    /\ pc = "idle"
    /\ i = 0
    /\ stack = <<>>
    /\ full = EmptyCache
    /\ minimal = EmptyCache
    /\ tools = <<>>
    /\ snap = NoSnap
    /\ stale = {}

\* No call of getJSONSchemaType is running.
InitJson ==
    /\ jin = NoJson
    /\ jpc = "idle"
    /\ jcall = NoJson.type
    /\ jstack = <<>>
    /\ jvisited = {}
    /\ jret = NoSchema

\* A server of the given kind has been constructed: `tools` is [], the
\* handlers are set up, no transport is connected.
InitServer(kinds) ==
    /\ server \in kinds
    /\ registry = <<>>
    /\ phase = "constructed"
    /\ request = NoRequest
    /\ missingParams = <<>>
    /\ upstream = <<>>
    /\ thrown = NoError
    /\ reply = NoReply
    /\ listed = NoList
    /\ transports = NoTransports
    /\ sessions = <<>>
    /\ response = NoHttp

Init == InitBuild /\ InitJson /\ InitServer({"none"})

\* clearFieldSelectionCaches(): typeFieldSelectionCache.clear() and
\* minimalFieldSelectionCache.clear()
NotCleared(cache) == cache
ClearedFull(cache) == EmptyCache
ClearedMinimal(cache) == EmptyCache

\* The names of the entries the full cache holds that differ from the
\* entries of snapshot sn.
StaleNames(fullc, sn) ==
    {n \in DOMAIN fullc \cap DOMAIN sn.full : fullc[n] # sn.full[n]}

\* The pre-warm loop generates for the object and interface types that are
\* not introspection types.
PrewarmedObjectsOnly(sch, n) ==
    TypeDef(sch, n).kind = "OBJECT" /\ ~IsIntrospectionName(n)
Prewarmed(sch, n) == IsComposite(sch, Ty(<<>>, n)) /\ ~IsIntrospectionName(n)

\* generateMCPToolsFromSchema is called: the caches are cleared, the schema
\* is built and the pre-warm loop is about to start.
Begin ==
    /\ pc \in {"idle", "done"}
    /\ \E inp \in Inputs :
         /\ input' = inp
         /\ stale' = IF snap.input = inp THEN StaleNames(full, snap) ELSE {}
    /\ full' = ClearedFull(full)
    /\ minimal' = ClearedMinimal(minimal)
    /\ tools' = <<>>
    /\ pc' = "warm"
    /\ i' = 1
    /\ UNCHANGED <<stack, snap>>
    /\ UNCHANGED <<jsVars, srvVars>>

\* generateMCPToolsFromSchema up to a buildClientSchema that throws: the
\* caches have been cleared, the array `tools` is never created and nothing
\* is returned.
BuildThrows(inp) ==
    /\ pc \in {"idle", "done"}
    /\ input' = inp
    /\ full' = ClearedFull(full)
    /\ minimal' = ClearedMinimal(minimal)
    /\ tools' = <<>>
    /\ pc' = "idle"
    /\ UNCHANGED <<i, stack, snap, stale>>

\* generateMCPToolsFromSchema is called with a malformed payload.
BeginMalformed ==
    /\ \E inp \in MalformedInputs : BuildThrows(inp)
    /\ UNCHANGED <<jsVars, srvVars>>

\* The pre-warm loop visits a type it does not generate for.
WarmSkip ==
    /\ pc = "warm" /\ stack = <<>> /\ i <= Len(input.order)
    /\ ~Prewarmed(S, input.order[i])
    /\ i' = i + 1
    /\ UNCHANGED <<input, pc, stack, full, minimal, tools, snap, stale>>
    /\ UNCHANGED <<jsVars, srvVars>>

\* The pre-warm loop calls generateFullFieldSelection(type) (depth 0).
WarmCall ==
    /\ pc = "warm" /\ stack = <<>> /\ i <= Len(input.order)
    /\ LET n == input.order[i]
           e == EnterFull(full, minimal, S, n, 0)
       IN  /\ Prewarmed(S, n)
           /\ full' = e.full
           /\ minimal' = e.minimal
           /\ IF e.ret
              THEN i' = i + 1 /\ stack' = stack
              ELSE i' = i /\ stack' = <<Frame(n, 0)>>
    /\ UNCHANGED <<input, pc, tools, snap, stale>>
    /\ UNCHANGED <<jsVars, srvVars>>

\* The pre-warm loop has visited every type of the type map.
WarmDone ==
    /\ pc = "warm" /\ stack = <<>> /\ i > Len(input.order)
    /\ pc' = "tools"
    /\ i' = 1
    /\ UNCHANGED <<input, stack, full, minimal, tools, snap, stale>>
    /\ UNCHANGED <<jsVars, srvVars>>

\* The field the top activation of generateFullFieldSelection is at, and
\* its type with the wrappers the loop body strips.
CurField == Fields(S, Top.t)[Top.k]
CheckType == StripWrappers(CurField.type)
InLoop == stack # <<>> /\ Top.k <= Len(Fields(S, Top.t))

\* The top activation with one more entry pushed and the loop advanced.
Advance(frame, entries) ==
    [frame EXCEPT !.k = frame.k + 1, !.sels = frame.sels \o entries]

\* Loop body, else branch: a scalar, enum or other simple type.
FieldSimple ==
    /\ InLoop
    /\ ~IsComposite(S, CheckType) /\ ~IsUnion(S, CheckType)
    /\ stack' = Pop \o << Advance(Top, << <<CurField.name>> >>) >>
    /\ UNCHANGED <<input, pc, i, full, minimal, tools, snap, stale>>
    /\ UNCHANGED <<jsVars, srvVars>>

\* Loop body: a union type.
FieldUnion ==
    /\ InLoop
    /\ ~IsComposite(S, CheckType) /\ IsUnion(S, CheckType)
    /\ stack' = Pop \o
          << Advance(Top, << FieldWith(CurField.name, TypenameSelection) >>) >>
    /\ UNCHANGED <<input, pc, i, full, minimal, tools, snap, stale>>
    /\ UNCHANGED <<jsVars, srvVars>>

\* Loop body: an object/interface field of the type being generated itself.
FieldSelf ==
    /\ InLoop
    /\ IsComposite(S, CheckType) /\ CheckType.n = Top.t
    /\ LET m == GetMinimal(minimal, S, CheckType.n) IN
         /\ minimal' = m.minimal
         /\ stack' = Pop \o
              << Advance(Top, IF m.val # Empty
                              THEN << FieldWith(CurField.name, m.val) >>
                              ELSE <<>>) >>
    /\ UNCHANGED <<input, pc, i, full, tools, snap, stale>>
    /\ UNCHANGED <<jsVars, srvVars>>

\* Loop body: an object/interface field of another type; the nested call
\* either returns at once or starts its own field loop.
FieldNested ==
    /\ InLoop
    /\ IsComposite(S, CheckType) /\ CheckType.n # Top.t
    /\ LET e == EnterFull(full, minimal, S, CheckType.n, Top.depth + 1) IN
         /\ full' = e.full
         /\ minimal' = e.minimal
         /\ IF e.ret
            THEN stack' = Pop \o
                   << Advance(Top, << NestedEntry(CurField.name, e.val) >>) >>
            ELSE stack' = stack \o << Frame(CheckType.n, Top.depth + 1) >>
    /\ UNCHANGED <<input, pc, i, tools, snap, stale>>
    /\ UNCHANGED <<jsVars, srvVars>>

AtEnd == stack # <<>> /\ Top.k > Len(Fields(S, Top.t))
Result == FinalSelection(Top.sels, Top.depth)

\* A nested call finishes: the selection is cached and handed to the caller,
\* which pushes its entry and goes on with its next field.
ReturnToCaller ==
    /\ AtEnd /\ Len(stack) >= 2
    /\ full' = Set(full, Top.t, Result)
    /\ LET caller == stack[Len(stack) - 1]
           field  == Fields(S, caller.t)[caller.k]
       IN  stack' = SubSeq(stack, 1, Len(stack) - 2) \o
                    << Advance(caller, << NestedEntry(field.name, Result) >>) >>
    /\ UNCHANGED <<input, pc, i, minimal, tools, snap, stale>>
    /\ UNCHANGED <<jsVars, srvVars>>

\* The call made by the pre-warm loop finishes.
ReturnToWarm ==
    /\ AtEnd /\ Len(stack) = 1 /\ pc = "warm"
    /\ full' = Set(full, Top.t, Result)
    /\ stack' = <<>>
    /\ i' = i + 1
    /\ UNCHANGED <<input, pc, minimal, tools, snap, stale>>
    /\ UNCHANGED <<jsVars, srvVars>>

\* generateFieldSelection(type, visited) up to its call of
\* generateFullFieldSelection: the selection it returns without generating
\* (ret), or the type it has to generate for.
FieldSelectionHead(fullc, minc, type, visited) ==
    LET actual == StripWrappers(type) IN
    IF actual.w = <<>> /\ TypeDef(S, actual.n).kind \in {"SCALAR", "ENUM"}
    THEN [ret |-> TRUE, val |-> Empty, minimal |-> minc]
    ELSE IF IsComposite(S, actual)
    THEN IF actual.n \in visited
         THEN LET m == GetMinimal(minc, S, actual.n)
              IN  [ret |-> TRUE, val |-> m.val, minimal |-> m.minimal]
         ELSE IF Has(fullc, actual.n)
         THEN [ret |-> TRUE, val |-> fullc[actual.n], minimal |-> minc]
         ELSE [ret |-> FALSE, val |-> Empty, minimal |-> minc]
    ELSE IF IsUnion(S, actual)
    THEN [ret |-> TRUE, val |-> TypenameSelection, minimal |-> minc]
    ELSE [ret |-> TRUE, val |-> Empty, minimal |-> minc]

AtRoot == pc = "tools" /\ stack = <<>> /\ i <= Len(RootFields(S))
CurRoot == RootFields(S)[i]

\* generateToolForField for a root field whose selection needs no
\* generation: tools.push(...).
ToolNext ==
    /\ AtRoot
    /\ LET h == FieldSelectionHead(full, minimal, CurRoot.field.type, {}) IN
         /\ h.ret
         /\ minimal' = h.minimal
         /\ tools' = Append(tools, Tool(CurRoot.op, CurRoot.field, h.val))
    /\ i' = i + 1
    /\ UNCHANGED <<input, pc, stack, full, snap, stale>>
    /\ UNCHANGED <<jsVars, srvVars>>

\* generateToolForField for a root field whose return type has no cache
\* entry: generateFieldSelection calls generateFullFieldSelection(type, 0).
ToolCall ==
    /\ AtRoot
    /\ LET h == FieldSelectionHead(full, minimal, CurRoot.field.type, {})
           n == StripWrappers(CurRoot.field.type).n
           e == EnterFull(full, minimal, S, n, 0)
       IN  /\ ~h.ret
           /\ ~e.ret
           /\ stack' = << Frame(n, 0) >>
    /\ UNCHANGED <<input, pc, i, full, minimal, tools, snap, stale>>
    /\ UNCHANGED <<jsVars, srvVars>>

\* That call finishes and the tool is pushed.
ReturnToTool ==
    /\ AtEnd /\ Len(stack) = 1 /\ pc = "tools"
    /\ full' = Set(full, Top.t, Result)
    /\ stack' = <<>>
    /\ tools' = Append(tools, Tool(CurRoot.op, CurRoot.field, Result))
    /\ i' = i + 1
    /\ UNCHANGED <<input, pc, minimal, snap, stale>>
    /\ UNCHANGED <<jsVars, srvVars>>

\* return tools
Finish ==
    /\ pc = "tools" /\ stack = <<>> /\ i > Len(RootFields(S))
    /\ pc' = "done"
    /\ snap' = IF snap = NoSnap
               THEN [input |-> input, full |-> full, minimal |-> minimal,
                     tools |-> tools]
               ELSE snap
    /\ UNCHANGED <<input, i, stack, full, minimal, tools, stale>>
    /\ UNCHANGED <<jsVars, srvVars>>

\* The steps of a running build.
Run ==
    \/ WarmSkip \/ WarmCall \/ WarmDone
    \/ FieldSimple \/ FieldUnion \/ FieldSelf \/ FieldNested
    \/ ReturnToCaller \/ ReturnToWarm
    \/ ToolNext \/ ToolCall \/ ReturnToTool
    \/ Finish

Next == Begin \/ BeginMalformed \/ Run

Spec == Init /\ [][Next]_vars

\* generateMCPToolsFromSchema is synchronous: once called it runs to its
\* return.
FairSpec == Spec /\ WF_vars(Run)

----------------------------------------------------------------------------
(* getJSONSchemaType                                                        *)

\* The (root field argument) types generateToolForField calls
\* getJSONSchemaType with, over all schemas.
JsonInputsOf(k) ==
    UNION { { [s |-> k, type |-> a.type] : a \in Range(RootFields(Shapes[k])[r].field.args) } :
            r \in 1..Len(RootFields(Shapes[k])) }
JsonInputs == UNION { JsonInputsOf(k) : k \in 1..Len(Shapes) }

JS == Shapes[jin.s]
JTop == jstack[Len(jstack)]
JPop == SubSeq(jstack, 1, Len(jstack) - 1)

\* An activation that waits for the schema of a list's item type, and one
\* that is in the field loop of an input-object type.
ListFrame == [kind |-> "list", t |-> "", k |-> 0, properties |-> <<>>, required |-> <<>>]
ObjectFrame(n) ==
    [kind |-> "object", t |-> n, k |-> 1, properties |-> <<>>, required |-> <<>>]

\* switch (graphqlType.name)
ScalarSchema(n) ==
    IF n \in {"String", "ID"} THEN [type |-> "string"]
    ELSE IF n = "Int" THEN [type |-> "integer"]
    ELSE IF n = "Float" THEN [type |-> "number"]
    ELSE IF n = "Boolean" THEN [type |-> "boolean"]
    ELSE [type |-> "string"]

\* { type: "string", enum: graphqlType.getValues().map(v => v.value) }
EnumSchema(sch, n) == [type |-> "string", enum |-> TypeDef(sch, n).values]

\* { type: "object", description: `Circular reference to ${name}` }
CircularSchema(n) == [type |-> "object", description |-> "Circular reference to " \o n]

\* { type: "object", properties, ...(required.length > 0 && { required }) }
ObjectSchema(properties, required) ==
    IF Len(required) > 0
    THEN [type |-> "object", properties |-> properties, required |-> required]
    ELSE [type |-> "object", properties |-> properties]

\* A check that never finds the type.
NeverVisited(vis, n) == FALSE
\* visited.has(graphqlType.name)
InVisited(vis, n) == n \in vis

\* isNonNullType(field.type): what the field loop pushes to `required`.
RequiredInputField(field) == IsNonNull(field.type)

\* The value stored for a field: the nested schema, with the field's
\* description written over it when the field has one.
WithDescription(schema, field) ==
    IF field.description # ""
    THEN [k \in DOMAIN schema \cup {"description"} |->
            IF k = "description" THEN field.description ELSE schema[k]]
    ELSE schema

IsNamed(t, sch, kind) == t.w = <<>> /\ TypeDef(sch, t.n).kind = kind

\* generateToolForField calls getJSONSchemaType(arg.type) with a fresh
\* visited set.
JsonStart ==
    /\ jpc \in {"idle", "done"}
    /\ \E inp \in JsonInputs :
         /\ jin' = inp
         /\ jcall' = inp.type
    /\ jpc' = "call"
    /\ jstack' = <<>>
    /\ jvisited' = {}
    /\ jret' = NoSchema
    /\ UNCHANGED <<buildVars, srvVars>>

\* A non-null type: return getJSONSchemaType(graphqlType.ofType, visited).
JsonNonNull ==
    /\ jpc = "call" /\ IsNonNull(jcall)
    /\ jcall' = OfType(jcall)
    /\ UNCHANGED <<jin, jpc, jstack, jvisited, jret>>
    /\ UNCHANGED <<buildVars, srvVars>>

\* A list type: the item type's schema is computed first.
JsonList ==
    /\ jpc = "call" /\ IsList(jcall)
    /\ jstack' = Append(jstack, ListFrame)
    /\ jcall' = OfType(jcall)
    /\ UNCHANGED <<jin, jpc, jvisited, jret>>
    /\ UNCHANGED <<buildVars, srvVars>>

JsonScalar ==
    /\ jpc = "call" /\ IsNamed(jcall, JS, "SCALAR")
    /\ jret' = ScalarSchema(jcall.n)
    /\ jpc' = "ret"
    /\ UNCHANGED <<jin, jcall, jstack, jvisited>>
    /\ UNCHANGED <<buildVars, srvVars>>

JsonEnum ==
    /\ jpc = "call" /\ IsNamed(jcall, JS, "ENUM")
    /\ jret' = EnumSchema(JS, jcall.n)
    /\ jpc' = "ret"
    /\ UNCHANGED <<jin, jcall, jstack, jvisited>>
    /\ UNCHANGED <<buildVars, srvVars>>

\* An input-object type that is in `visited`: the placeholder is returned.
JsonCircular ==
    /\ jpc = "call" /\ IsNamed(jcall, JS, "INPUT_OBJECT")
    /\ InVisited(jvisited, jcall.n)
    /\ jret' = CircularSchema(jcall.n)
    /\ jpc' = "ret"
    /\ UNCHANGED <<jin, jcall, jstack, jvisited>>
    /\ UNCHANGED <<buildVars, srvVars>>

\* An input-object type that is not: it is added to `visited` and its field
\* loop starts.
JsonEnter ==
    /\ jpc = "call" /\ IsNamed(jcall, JS, "INPUT_OBJECT")
    /\ ~InVisited(jvisited, jcall.n)
    /\ jvisited' = jvisited \cup {jcall.n}
    /\ jstack' = Append(jstack, ObjectFrame(jcall.n))
    /\ jpc' = "loop"
    /\ UNCHANGED <<jin, jcall, jret>>
    /\ UNCHANGED <<buildVars, srvVars>>

JInLoop == jpc = "loop" /\ JTop.k <= Len(Fields(JS, JTop.t))
JCurField == Fields(JS, JTop.t)[JTop.k]

\* Field loop: getJSONSchemaType(field.type, visited) is called.
JsonField ==
    /\ JInLoop
    /\ jcall' = JCurField.type
    /\ jpc' = "call"
    /\ UNCHANGED <<jin, jstack, jvisited, jret>>
    /\ UNCHANGED <<buildVars, srvVars>>

\* Field loop: the nested call has returned; the property is stored, the
\* description written, the name pushed to `required` when non-null.
JsonFieldReturn ==
    /\ jpc = "ret" /\ jstack # <<>> /\ JTop.kind = "object"
    /\ jstack' = JPop \o
         << [JTop EXCEPT
               !.properties = (JCurField.name :> WithDescription(jret, JCurField)) @@ @,
               !.required = IF RequiredInputField(JCurField)
                            THEN Append(@, JCurField.name) ELSE @,
               !.k = @ + 1] >>
    /\ jret' = NoSchema
    /\ jpc' = "loop"
    /\ UNCHANGED <<jin, jcall, jvisited>>
    /\ UNCHANGED <<buildVars, srvVars>>

\* The item type's schema has been returned to a list activation.
JsonItems ==
    /\ jpc = "ret" /\ jstack # <<>> /\ JTop.kind = "list"
    /\ jstack' = JPop
    /\ jret' = [type |-> "array", items |-> jret]
    /\ UNCHANGED <<jin, jpc, jcall, jvisited>>
    /\ UNCHANGED <<buildVars, srvVars>>

\* The field loop is over: the type leaves `visited` and the object schema
\* is returned.
JsonLeave ==
    /\ jpc = "loop" /\ JTop.k > Len(Fields(JS, JTop.t))
    /\ jvisited' = jvisited \ {JTop.t}
    /\ jstack' = JPop
    /\ jret' = ObjectSchema(JTop.properties, JTop.required)
    /\ jpc' = "ret"
    /\ UNCHANGED <<jin, jcall>>
    /\ UNCHANGED <<buildVars, srvVars>>

\* The outermost call returns to generateToolForField.
JsonDone ==
    /\ jpc = "ret" /\ jstack = <<>>
    /\ jpc' = "done"
    /\ UNCHANGED <<jin, jcall, jstack, jvisited, jret>>
    /\ UNCHANGED <<buildVars, srvVars>>

JsonRun ==
    \/ JsonNonNull \/ JsonList \/ JsonScalar \/ JsonEnum
    \/ JsonCircular \/ JsonEnter
    \/ JsonField \/ JsonFieldReturn \/ JsonItems \/ JsonLeave
    \/ JsonDone

JsonNext == JsonStart \/ JsonRun

JsonSpec == Init /\ [][JsonNext]_vars

\* getJSONSchemaType is synchronous: once called it runs to its return.
JsonFairSpec == JsonSpec /\ WF_vars(JsonRun)

----------------------------------------------------------------------------
(* The servers: cli.ts and http-server.ts                                   *)

\* JavaScript values of an argument.
Undefined == [t |-> "undefined", v |-> ""]
Null == [t |-> "null", v |-> ""]
Str(v) == [t |-> "string", v |-> v]
ArgValues == {Undefined, Null, Str(""), Str("v")}

\* The `arguments` of a request: undefined, null, or an object with own
\* properties and properties inherited from its prototype.
NoProps == [n \in {} |-> Undefined]
UndefinedArgs == [kind |-> "undefined", own |-> NoProps, proto |-> NoProps]
NullArgs == [kind |-> "null", own |-> NoProps, proto |-> NoProps]
ObjectArgs(own, proto) == [kind |-> "object", own |-> own, proto |-> proto]

\* The argument values a client may send to a tool with the given
\* parameter names.
ArgObjects(names) ==
    {UndefinedArgs, NullArgs} \cup
    { ObjectArgs(own, proto) :
        own \in UNION { [d -> ArgValues] : d \in SUBSET names },
        proto \in {NoProps, [n \in names |-> Str("p")]} }

\* param in args: an own or an inherited property.
HasProperty(args, param) == param \in DOMAIN args.own \cup DOMAIN args.proto
\* Object.prototype.hasOwnProperty.call(args, param)
HasOwn(args, param) == param \in DOMAIN args.own
\* args[param]
Get(args, param) ==
    IF param \in DOMAIN args.own THEN args.own[param]
    ELSE IF param \in DOMAIN args.proto THEN args.proto[param]
    ELSE Undefined

\* The condition under which validateRequiredParameters pushes param.
IsMissing(args, param) ==
    \/ args.kind = "undefined" \/ args.kind = "null"
    \/ ~HasOwn(args, param)
    \/ Get(args, param) = Undefined \/ Get(args, param) = Null

\* validateRequiredParameters(tool, args)
ValidateRequiredParameters(tool, args) ==
    SelectSeq(RequiredParams(tool), LAMBDA param : IsMissing(args, param))

RECURSIVE JoinStr(_, _)
\* names.join(sep) for a sequence of strings, as a string
JoinStr(names, sep) ==
    IF names = <<>> THEN ""
    ELSE IF Len(names) = 1 THEN names[1]
    ELSE names[1] \o sep \o JoinStr(Tail(names), sep)

\* A type string that ignores the argument's type.
GenericVariableType(t) == "String"
RECURSIVE GetGraphQLVariableType(_)
\* getGraphQLVariableType(graphqlType)
GetGraphQLVariableType(t) ==
    IF IsNonNull(t) THEN GetGraphQLVariableType(OfType(t)) \o "!"
    ELSE IF IsList(t) THEN "[" \o GetGraphQLVariableType(OfType(t)) \o "]"
    ELSE t.n

\* The pieces of white space of the operation template.
OuterIndent == "\n      "
InnerIndent == "\n        "
LastIndent == "\n    "
IsBlank(piece) == piece \in {SP, NL, IndentUnit, OuterIndent, InnerIndent, LastIndent}

\* text.trim(), on a text given as a sequence of pieces
Trim(text) ==
    LET solid == {k \in 1..Len(text) : ~IsBlank(text[k])} IN
    IF solid = {} THEN <<>>
    ELSE SubSeq(text, CHOOSE k \in solid : \A j \in solid : k <= j,
                      CHOOSE k \in solid : \A j \in solid : k >= j)

\* `(${list})` when the list is not empty, '' otherwise
Parenthesised(list) == IF list # <<>> THEN <<"(">> \o list \o <<")">> ELSE <<>>

\* buildGraphQLOperation(tool._graphql, variables) of cli.ts
BuildGraphQLOperation(g) ==
    LET variableDeclarations ==
            Join([k \in 1..Len(g.args) |->
                    <<"$", g.args[k].name, ": ", GetGraphQLVariableType(g.args[k].type)>>],
                 <<", ">>)
        variableUsage ==
            Join([k \in 1..Len(g.args) |->
                    <<g.args[k].name, ": ", "$", g.args[k].name>>],
                 <<", ">>)
    IN  Trim(<<OuterIndent, g.operationType, SP, g.fieldName, "Operation">> \o
             Parenthesised(variableDeclarations) \o
             <<SP, "{", InnerIndent, g.fieldName>> \o
             Parenthesised(variableUsage) \o <<SP>> \o g.fieldSelection \o
             <<OuterIndent, "}", LastIndent>>)

\* buildGraphQLOperation(type, operationName, variables) of http-server.ts,
\* for the keys of `variables` in the order Object.keys gives them; the
\* text is not trimmed.
HttpBuildGraphQLOperation(type, operationName, keys) ==
    LET variableDeclarations ==
            Join([k \in 1..Len(keys) |-> <<"$", keys[k], ": ", "String">>], <<", ">>)
        variableUsage ==
            Join([k \in 1..Len(keys) |-> <<keys[k], ": ", "$", keys[k]>>], <<", ">>)
    IN  <<OuterIndent, type, SP, operationName, "Operation">> \o
        Parenthesised(variableDeclarations) \o
        <<SP, "{", InnerIndent, operationName>> \o
        Parenthesised(variableUsage) \o
        <<OuterIndent, "}", LastIndent>>

\* this.tools.find(t => t.name === name): the index of the first tool of
\* that name, 0 for undefined.
Find(reg, name) ==
    IF \E k \in 1..Len(reg) : reg[k].name = name
    THEN CHOOSE k \in 1..Len(reg) :
            reg[k].name = name /\ \A j \in 1..(k - 1) : reg[j].name # name
    ELSE 0

\* The catch block's result: isError with `Error executing ${name}: ${msg}`
ErrorReply(name, errorMessage) ==
    [isError |-> TRUE, text |-> "Error executing " \o name \o ": " \o errorMessage]

\* new Error(message)
Err(message) == [instanceOfError |-> TRUE, message |-> message, response |-> NoResponse]

\* What graphqlClient.request may reject with: an Error of a failed fetch,
\* an Error that carries the response with the GraphQL error list and the
\* HTTP status, an Error that carries a response without a list, and a
\* value that is not an Error.
UpstreamErrors ==
    { Err("Network error: ECONNREFUSED"),
      [instanceOfError |-> TRUE, message |-> "GraphQL execution error",
       response |-> [status |-> 200,
                     errors |-> <<"Cannot query field", "Variable not provided">>]],
      [instanceOfError |-> TRUE, message |-> "GraphQL Error (Code: 500)",
       response |-> [status |-> 500, errors |-> <<>>]],
      [instanceOfError |-> FALSE, message |-> "socket hang up", response |-> NoResponse] }

\* error instanceof Error ? error.message : 'Unknown error'
ErrorMessage(error) ==
    IF error.instanceOfError THEN error.message ELSE "Unknown error"

\* The catch block of the handler: what it returns for what it caught.
Caught(name, error) == ErrorReply(name, ErrorMessage(error))

\* A check that lets every request through.
ValidationSkipped(missing) == FALSE
\* missingParams.length > 0
ValidationFails(missing) == Len(missing) > 0

\* The tool names a client may ask for: the registered ones and some that
\* are not.
UnknownNames == {"unknown_tool", "query_nope", "mutation_nope", "user"}
RequestNames == {registry[k].name : k \in 1..Len(registry)} \cup UnknownNames
ParamNames(name) ==
    IF Find(registry, name) = 0 THEN {"id"}
    ELSE {a.name : a \in Range(registry[Find(registry, name)].args)}

\* A reload that may be triggered at any time, also while requests are
\* served.
ReloadAnyTime ==
    /\ server \in {"cli", "http"} /\ pc \in {"idle", "done"}
    /\ Begin

\* start() of either server begins: loadTools calls
\* generateMCPToolsFromSchema on the introspection result.
StartLoad ==
    /\ server \in {"cli", "http"} /\ phase = "constructed" /\ pc = "idle"
    /\ Begin

\* loadTools calls generateMCPToolsFromSchema on a malformed payload: the
\* exception passes through loadTools' catch block (logged, thrown again)
\* and start() rejects.
LoadFail ==
    /\ server \in {"cli", "http"} /\ phase = "constructed" /\ pc = "idle"
    /\ \E inp \in MalformedInputs : BuildThrows(inp)
    /\ phase' = "failed"
    /\ UNCHANGED <<server, registry, request, missingParams, upstream, thrown,
                   reply, listed>>
    /\ UNCHANGED jsVars
    /\ UNCHANGED httpVars

\* loadTools fails before it has a payload: no schema file, or the
\* introspection request rejects.
LoadUnavailable ==
    /\ server \in {"cli", "http"} /\ phase = "constructed" /\ pc = "idle"
    /\ input = NoInput
    /\ phase' = "failed"
    /\ UNCHANGED <<server, registry, request, missingParams, upstream, thrown,
                   reply, listed>>
    /\ UNCHANGED <<buildVars, jsVars>>
    /\ UNCHANGED httpVars

\* this.tools = generateMCPToolsFromSchema(introspectionResult)
AssignTools ==
    /\ phase = "constructed" /\ pc = "done"
    /\ registry' = tools
    /\ phase' = "loaded"
    /\ UNCHANGED <<server, request, missingParams, upstream, thrown, reply>>
    /\ UNCHANGED <<buildVars, jsVars, listed>>
    /\ UNCHANGED httpVars

\* A start() that does not wait for loadTools.
ConnectEarly ==
    /\ phase \in {"constructed", "loaded"}
    /\ phase' = "connected"
    /\ UNCHANGED <<server, registry, request, missingParams, upstream, thrown, reply>>
    /\ UNCHANGED <<buildVars, jsVars, listed>>
    /\ UNCHANGED httpVars

\* loadTools has returned: the transport is connected.
Connect ==
    /\ phase = "loaded"
    /\ phase' = "connected"
    /\ UNCHANGED <<server, registry, request, missingParams, upstream, thrown, reply>>
    /\ UNCHANGED <<buildVars, jsVars, listed>>
    /\ UNCHANGED httpVars

\* ListTools: return { tools: this.tools }.  A CallTool request may be
\* waiting for its upstream answer meanwhile.
ListTools ==
    /\ phase = "connected" /\ listed = NoList
    /\ listed' = [sent |-> TRUE, tools |-> registry]
    /\ UNCHANGED <<server, registry, phase, request, missingParams, upstream,
                   thrown, reply>>
    /\ UNCHANGED <<buildVars, jsVars>>
    /\ UNCHANGED httpVars

\* The list the handler returned is sent to the client.
DeliverList ==
    /\ listed # NoList
    /\ listed' = NoList
    /\ UNCHANGED <<server, registry, phase, request, missingParams, upstream,
                   thrown, reply>>
    /\ UNCHANGED <<buildVars, jsVars>>
    /\ UNCHANGED httpVars

\* The handler is at `await this.graphqlClient.request(query, args)`.
Awaiting == request # NoRequest /\ reply = NoReply
\* The handler has returned its result.
Replied == request # NoRequest /\ reply # NoReply
CanReceive == phase = "connected" /\ request = NoRequest

\* cli.ts, CallTool: no tool of that name.
CallUnknown ==
    /\ server = "cli" /\ CanReceive
    /\ \E name \in RequestNames : \E args \in ArgObjects(ParamNames(name)) :
         /\ Find(registry, name) = 0
         /\ request' = [name |-> name, args |-> args]
         /\ thrown' = Err("Unknown tool: " \o name)
         /\ reply' = Caught(name, Err("Unknown tool: " \o name))
    /\ missingParams' = <<>>
    /\ upstream' = <<>>
    /\ UNCHANGED <<server, registry, phase>>
    /\ UNCHANGED <<buildVars, jsVars, listed>>
    /\ UNCHANGED httpVars

\* cli.ts, CallTool: required parameters are missing.
CallMissing ==
    /\ server = "cli" /\ CanReceive
    /\ \E name \in RequestNames : \E args \in ArgObjects(ParamNames(name)) :
         /\ Find(registry, name) # 0
         /\ LET missing == ValidateRequiredParameters(registry[Find(registry, name)], args)
            IN  /\ ValidationFails(missing)
                /\ missingParams' = missing
                /\ thrown' = Err("Missing required parameters: " \o
                                  JoinStr(missing, ", "))
                /\ reply' = Caught(name, Err("Missing required parameters: " \o
                                              JoinStr(missing, ", ")))
         /\ request' = [name |-> name, args |-> args]
    /\ upstream' = <<>>
    /\ UNCHANGED <<server, registry, phase>>
    /\ UNCHANGED <<buildVars, jsVars, listed>>
    /\ UNCHANGED httpVars

\* cli.ts, CallTool: the operation is built and sent upstream.
CallSend ==
    /\ server = "cli" /\ CanReceive
    /\ \E name \in RequestNames : \E args \in ArgObjects(ParamNames(name)) :
         /\ Find(registry, name) # 0
         /\ LET tool == registry[Find(registry, name)]
                missing == ValidateRequiredParameters(tool, args)
            IN  /\ ~ValidationFails(missing)
                /\ missingParams' = missing
                /\ upstream' = << [query |-> BuildGraphQLOperation(tool),
                                   variables |-> args] >>
         /\ request' = [name |-> name, args |-> args]
    /\ thrown' = NoError
    /\ reply' = NoReply
    /\ UNCHANGED <<server, registry, phase>>
    /\ UNCHANGED <<buildVars, jsVars, listed>>
    /\ UNCHANGED httpVars

\* The upstream request resolves: the result is returned as text.
UpstreamResolve ==
    /\ Awaiting
    /\ reply' = [isError |-> FALSE, text |-> "result"]
    /\ UNCHANGED <<server, registry, phase, request, missingParams, upstream, thrown>>
    /\ UNCHANGED <<buildVars, jsVars, listed>>
    /\ UNCHANGED httpVars

\* The upstream request rejects, with an Error or with something else: the
\* catch block returns its result.
UpstreamReject ==
    /\ Awaiting
    /\ \E error \in UpstreamErrors :
         /\ thrown' = error
         /\ reply' = Caught(request.name, error)
    /\ UNCHANGED <<server, registry, phase, request, missingParams, upstream>>
    /\ UNCHANGED <<buildVars, jsVars, listed>>
    /\ UNCHANGED httpVars

\* The result the handler returned is sent to the client; the handler's
\* locals are gone.
Deliver ==
    /\ Replied
    /\ request' = NoRequest
    /\ missingParams' = <<>>
    /\ upstream' = <<>>
    /\ thrown' = NoError
    /\ reply' = NoReply
    /\ UNCHANGED <<server, registry, phase>>
    /\ UNCHANGED <<buildVars, jsVars, listed>>
    /\ UNCHANGED httpVars

\* name.startsWith(prefix)
StartsWith(name, prefix) ==
    Len(name) >= Len(prefix) /\ SubSeq(name, 1, Len(prefix)) = prefix
\* name.replace(/^(query_|mutation_)/, '')
WithoutPrefix(name) ==
    IF StartsWith(name, "query_") THEN SubSeq(name, Len("query_") + 1, Len(name))
    ELSE IF StartsWith(name, "mutation_")
    THEN SubSeq(name, Len("mutation_") + 1, Len(name))
    ELSE name

\* The orders in which Object.keys may list the own properties.
KeyOrders(args) ==
    { p \in [1..Cardinality(DOMAIN args.own) -> DOMAIN args.own] :
        \A a, b \in DOMAIN p : a # b => p[a] # p[b] }

\* The arguments sent to the http-server.ts handler.
HttpArgs ==
    { UndefinedArgs, ObjectArgs(NoProps, NoProps),
      ObjectArgs("id" :> Str("v"), NoProps),
      ObjectArgs(("id" :> Str("v")) @@ ("limit" :> Null), NoProps) }

\* http-server.ts, CallTool: the name starts with neither prefix.
HttpCallUnknown ==
    /\ server = "http" /\ CanReceive
    /\ \E name \in RequestNames : \E args \in HttpArgs :
         /\ ~StartsWith(name, "query_") /\ ~StartsWith(name, "mutation_")
         /\ request' = [name |-> name, args |-> args]
         /\ thrown' = Err("Unknown tool: " \o name)
         /\ reply' = Caught(name, Err("Unknown tool: " \o name))
    /\ missingParams' = <<>>
    /\ upstream' = <<>>
    /\ UNCHANGED <<server, registry, phase>>
    /\ UNCHANGED <<buildVars, jsVars, listed>>
    /\ UNCHANGED httpVars

\* http-server.ts, CallTool: the name starts with query_ or mutation_; the
\* operation is built from the name and the keys of the arguments and sent.
HttpCallSend ==
    /\ server = "http" /\ CanReceive
    /\ \E name \in RequestNames : \E args \in HttpArgs : \E keys \in KeyOrders(args) :
         /\ StartsWith(name, "query_") \/ StartsWith(name, "mutation_")
         /\ request' = [name |-> name, args |-> args]
         /\ upstream' = << [query |-> HttpBuildGraphQLOperation(
                                         IF StartsWith(name, "query_")
                                         THEN "query" ELSE "mutation",
                                         WithoutPrefix(name), keys),
                            variables |-> args] >>
    /\ missingParams' = <<>>
    /\ thrown' = NoError
    /\ reply' = NoReply
    /\ UNCHANGED <<server, registry, phase>>
    /\ UNCHANGED <<buildVars, jsVars, listed>>
    /\ UNCHANGED httpVars

Serve ==
    \/ LoadFail \/ LoadUnavailable
    \/ AssignTools \/ Connect
    \/ ListTools \/ DeliverList
    \/ CallUnknown \/ CallMissing \/ CallSend
    \/ UpstreamResolve \/ UpstreamReject \/ Deliver
    \/ HttpCallUnknown \/ HttpCallSend

ServerNext == StartLoad \/ Run \/ Serve

\* A server has been constructed; start() runs, then requests are handled.
ServerInit == InitBuild /\ InitJson /\ InitServer({"cli", "http"})

ServerSpec == ServerInit /\ [][ServerNext]_vars

----------------------------------------------------------------------------
(* startHttpServer of cli.ts: the /mcp routes and the session map           *)

\* How many transports are created.
MaxSessions == 2

\* randomUUID(): a fresh session id for each transport.
SessionId(t) == "session-" \o ToString(t)

\* Names every object inherits from Object.prototype.
ProtoNames == {"constructor"}

\* The mcp-session-id headers a client may send ("" for none): the ids the
\* server issues, an id it never issued, and a name of Object.prototype.
ClientIds ==
    {"", "unknown"} \cup ProtoNames \cup {SessionId(t) : t \in 1..MaxSessions}

\* transports[sessionId] is truthy: an own property, or one the object
\* literal inherits.
Truthy(map, sid) == sid \in DOMAIN map \/ sid \in ProtoNames

\* delete transports[sid]
Delete(map, sid) == [s \in DOMAIN map \ {sid} |-> map[s]]

\* What the route handler did: the transport it handed the request to
\* (routed, 0 for none) and the status it answered with itself (0 when the
\* transport answers, or when nothing is answered).
Routed(method, sid, init, t) ==
    [method |-> method, sid |-> sid, initialize |-> init, status |-> 0, routed |-> t]
Answered(method, sid, init, status) ==
    [method |-> method, sid |-> sid, initialize |-> init, status |-> status, routed |-> 0]

\* The part of the server the routes leave alone.
HttpFrame ==
    /\ UNCHANGED <<server, registry, phase, request, missingParams, upstream,
                   thrown, reply, listed>>
    /\ UNCHANGED <<buildVars, jsVars>>

\* start() in HTTP mode: loadTools has returned, app.listen is called.
Listen ==
    /\ server = "cli" /\ phase = "loaded"
    /\ phase' = "listening"
    /\ UNCHANGED <<server, registry, request, missingParams, upstream, thrown,
                   reply, listed>>
    /\ UNCHANGED <<buildVars, jsVars>>
    /\ UNCHANGED httpVars

\* POST /mcp, `sessionId && transports[sessionId]`: the transport found is
\* reused; what is found under an inherited name is not a transport, its
\* handleRequest is not a function, and the catch block answers 500.
PostReuse ==
    /\ phase = "listening"
    /\ \E sid \in ClientIds \ {""} : \E init \in BOOLEAN :
         /\ Truthy(transports, sid)
         /\ response' = IF sid \in DOMAIN transports
                        THEN Routed("POST", sid, init, transports[sid])
                        ELSE Answered("POST", sid, init, 500)
    /\ UNCHANGED <<transports, sessions>>
    /\ HttpFrame

\* POST /mcp, `!sessionId && isInitializeRequest(req.body)`: a transport is
\* created, connected and handed the request.
PostInitialize ==
    /\ phase = "listening"
    /\ Len(sessions) < MaxSessions
    /\ sessions' = Append(sessions, [sid |-> "", state |-> "new"])
    /\ response' = Routed("POST", "", TRUE, Len(sessions) + 1)
    /\ UNCHANGED transports
    /\ HttpFrame

\* POST /mcp, else branch: 400 'Bad Request: No valid session ID provided'.
PostInvalid ==
    /\ phase = "listening"
    /\ \E sid \in ClientIds : \E init \in BOOLEAN :
         /\ ~(sid # "" /\ Truthy(transports, sid))
         /\ ~(sid = "" /\ init)
         /\ response' = Answered("POST", sid, init, 400)
    /\ UNCHANGED <<transports, sessions>>
    /\ HttpFrame

\* GET /mcp: 400 without a session the map knows; otherwise the transport
\* is handed the request.  Under an inherited name handleRequest is not a
\* function and the handler's promise rejects with no answer sent.
GetStream ==
    /\ phase = "listening"
    /\ \E sid \in ClientIds :
         response' = IF sid = "" \/ ~Truthy(transports, sid)
                     THEN Answered("GET", sid, FALSE, 400)
                     ELSE IF sid \in DOMAIN transports
                     THEN Routed("GET", sid, FALSE, transports[sid])
                     ELSE Answered("GET", sid, FALSE, 0)
    /\ UNCHANGED <<transports, sessions>>
    /\ HttpFrame

\* DELETE /mcp: as GET, inside a try whose catch block answers 500.
DeleteSession ==
    /\ phase = "listening"
    /\ \E sid \in ClientIds :
         response' = IF sid = "" \/ ~Truthy(transports, sid)
                     THEN Answered("DELETE", sid, FALSE, 400)
                     ELSE IF sid \in DOMAIN transports
                     THEN Routed("DELETE", sid, FALSE, transports[sid])
                     ELSE Answered("DELETE", sid, FALSE, 500)
    /\ UNCHANGED <<transports, sessions>>
    /\ HttpFrame

\* onsessioninitialized(sessionId): transports[sessionId] = transport
SessionInitialized ==
    /\ \E t \in 1..Len(sessions) :
         /\ sessions[t].state = "new"
         /\ sessions' = [sessions EXCEPT ![t] = [sid |-> SessionId(t), state |-> "open"]]
         /\ transports' = (SessionId(t) :> t) @@ transports
    /\ UNCHANGED response
    /\ HttpFrame

\* transport.onclose: the session id, if the transport has one and the map
\* knows it, is deleted from the map.
Close ==
    /\ \E t \in 1..Len(sessions) :
         /\ sessions[t].state \in {"new", "open"}
         /\ sessions' = [sessions EXCEPT ![t].state = "closed"]
         /\ transports' = IF sessions[t].sid # "" /\ Truthy(transports, sessions[t].sid)
                          THEN Delete(transports, sessions[t].sid)
                          ELSE transports
    /\ UNCHANGED response
    /\ HttpFrame

Routes ==
    \/ PostReuse \/ PostInitialize \/ PostInvalid
    \/ GetStream \/ DeleteSession
    \/ SessionInitialized \/ Close

HttpNext == StartLoad \/ Run \/ AssignTools \/ Listen \/ Routes

\* The CLI server has been constructed with transport 'http'.
HttpInit == InitBuild /\ InitJson /\ InitServer({"cli"})

HttpSpec == HttpInit /\ [][HttpNext]_vars

----------------------------------------------------------------------------
(* Reading a selection string back                                          *)

IsSpace(tok) == tok \in {SP, NL, IndentUnit}

RECURSIVE StrLen(_)
\* The length of the string, in characters.
StrLen(sel) == IF sel = <<>> THEN 0 ELSE Len(Head(sel)) + StrLen(Tail(sel))

RECURSIVE CloseOf(_, _, _)
\* The position of the "}" that closes the block open `level` deep at p
\* (0 when there is none).
CloseOf(toks, p, level) ==
    IF p > Len(toks) THEN 0
    ELSE IF toks[p] = "{" THEN CloseOf(toks, p + 1, level + 1)
    ELSE IF toks[p] = "}"
         THEN IF level = 1 THEN p ELSE CloseOf(toks, p + 1, level - 1)
    ELSE CloseOf(toks, p + 1, level)

RECURSIVE Entries(_, _)
\* The fields selected between position p and the end of the block p is in:
\* each with its name and the sub-selection that follows it (Empty for a
\* bare field name).
Entries(toks, p) ==
    IF p > Len(toks) \/ toks[p] = "}" THEN <<>>
    ELSE IF IsSpace(toks[p]) THEN Entries(toks, p + 1)
    ELSE IF p + 2 <= Len(toks) /\ toks[p + 1] = SP /\ toks[p + 2] = "{"
         THEN LET c == CloseOf(toks, p + 3, 1) IN
              IF c = 0
              THEN << [name |-> toks[p], sub |-> SubSeq(toks, p + 2, Len(toks))] >>
              ELSE << [name |-> toks[p], sub |-> SubSeq(toks, p + 2, c)] >>
                   \o Entries(toks, c + 1)
    ELSE << [name |-> toks[p], sub |-> Empty] >> \o Entries(toks, p + 1)

\* The fields a selection string selects at its top level.
TopEntries(sel) == IF sel = Empty THEN <<>> ELSE Entries(sel, 2)

Selects(sel, f) == \E k \in 1..Len(TopEntries(sel)) : TopEntries(sel)[k].name = f
\* The sub-selection that follows field f in sel.
SubSelection(sel, f) ==
    LET es == TopEntries(sel) IN es[CHOOSE k \in 1..Len(es) : es[k].name = f].sub

KindOf(sch, n) == TypeDef(sch, n).kind
NeedsSelection(sch, n) == KindOf(sch, n) \in {"OBJECT", "INTERFACE", "UNION"}
IsObjectLike(sch, n) == KindOf(sch, n) \in {"OBJECT", "INTERFACE"}
FieldNamed(sch, n, f) ==
    Fields(sch, n)[CHOOSE k \in 1..Len(Fields(sch, n)) : Fields(sch, n)[k].name = f]

RECURSIVE NoBareComposite(_, _, _)
\* In selection sel on type n, every field whose named type is an object,
\* interface or union is followed by a non-empty sub-selection, at every
\* level.
NoBareComposite(sch, n, sel) ==
    \A k \in 1..Len(TopEntries(sel)) :
        LET e == TopEntries(sel)[k] IN
        HasField(sch, n, e.name) =>
            LET b == FieldNamed(sch, n, e.name).type.n IN
            NeedsSelection(sch, b) =>
                /\ TopEntries(e.sub) # <<>>
                /\ NoBareComposite(sch, b, e.sub)

Built == pc = "done"

\* How many times the piece tok occurs in the selection string.
Count(sel, tok) == Cardinality({k \in 1..Len(sel) : sel[k] = tok})

----------------------------------------------------------------------------
(* Claims                                                                   *)

\* C1: every build terminates: whatever the type graph, the build is again
\* and again at its return (or not started) with no activation of
\* generateFullFieldSelection left, so the pre-warm loop, the tool loop and
\* every activation return; and no activation expands a type's fields at a
\* depth greater than 3.
C1_TerminatesWithinDepth ==
    /\ [](\A k \in 1..Len(stack) : stack[k].depth <= 3 /\ stack[k].depth = k - 1)
    /\ []<>(pc \in {"idle", "done"} /\ stack = <<>>)

\* A build of the User/Post cycle has returned, after the depth ceiling cut
\* the cycle (only the ceiling writes the minimal cache in that schema).
C1_Witness ==
    Built /\ input.s = 1 /\ Has(minimal, "User") /\ Has(full, "Post")

\* C2: after a build, in every full cache entry and in every tool's
\* operation, a field whose named type is an object, interface or union is
\* followed by a non-empty sub-selection, the root field included.
C2_NoBareCompositeField ==
    Built =>
        /\ \A n \in DOMAIN full : NoBareComposite(S, n, full[n])
        /\ \A k \in 1..Len(tools) :
               LET b == tools[k].returnType.n IN
               NeedsSelection(S, b) =>
                   /\ TopEntries(tools[k].fieldSelection) # <<>>
                   /\ NoBareComposite(S, b, tools[k].fieldSelection)

\* C3: for User.posts: [Post], Post.author: User, after the build the
\* selection of author inside Post's cached selection is exactly the minimal
\* selection of User and strictly shorter than User's cached selection.
C3_AuthorIsMinimal ==
    (Built /\ input.s = 1) =>
        /\ Selects(full["Post"], "author")
        /\ SubSelection(full["Post"], "author") = MinimalOf(S, "User")
        /\ StrLen(SubSelection(full["Post"], "author")) < StrLen(full["User"])

\* C4: while a build runs, an entry of the full cache is never removed and
\* never overwritten with a different string.
C4_EntriesNeverOverwritten ==
    [][(pc \in {"warm", "tools"}) =>
         \A n \in DOMAIN full : Has(full', n) /\ (full'[n] = full[n]) ]_vars

\* C5: after a build, the cached full selection of every object/interface
\* type the pre-warm loop covers names every field declared on the type:
\* scalar and enum fields bare, the others with a sub-selection.
C5_FieldComplete ==
    Built =>
        \A n \in DOMAIN S.types :
            (IsObjectLike(S, n) /\ ~IsIntrospectionName(n)) =>
                /\ Has(full, n)
                /\ \A k \in 1..Len(Fields(S, n)) :
                       LET f == Fields(S, n)[k] IN
                       /\ Selects(full[n], f.name)
                       /\ NeedsSelection(S, f.type.n)
                              <=> (SubSelection(full[n], f.name) # Empty)

\* C6: wrappers never change the result: a tool whose return type is any
\* chain of wrappers around an object/interface type T has the selection of
\* T itself, and two fields of one type whose types wrap the same
\* object/interface type get the same sub-selection.
C6_WrappersTransparent ==
    Built =>
        /\ \A k \in 1..Len(tools) :
               LET b == tools[k].returnType.n IN
               IsObjectLike(S, b) =>
                   Has(full, b) /\ tools[k].fieldSelection = full[b]
        /\ \A n \in DOMAIN full : \A j, k \in 1..Len(Fields(S, n)) :
               LET f == Fields(S, n)[j]
                   g == Fields(S, n)[k]
               IN  ( /\ f.type.n = g.type.n
                     /\ IsObjectLike(S, f.type.n)
                     /\ Selects(full[n], f.name)
                     /\ Selects(full[n], g.name) ) =>
                   SubSelection(full[n], f.name) = SubSelection(full[n], g.name)

\* C7: a build of the introspection result the first build was given yields
\* the same tools in the same order with the same fieldSelection, and the
\* same full cache, whatever was built in between.
C7_Deterministic ==
    (Built /\ snap.input = input) =>
        /\ Len(tools) = Len(snap.tools)
        /\ \A k \in 1..Len(tools) :
               /\ tools[k].name = snap.tools[k].name
               /\ tools[k].fieldSelection = snap.tools[k].fieldSelection
        /\ DOMAIN full = DOMAIN snap.full
        /\ \A n \in DOMAIN full : full[n] = snap.full[n]

\* A later build of the first build's input has returned; it started with a
\* full cache whose entries for some of its type names were another
\* schema's.
C7_Witness ==
    Built /\ snap.input = input /\ stale # {} /\ Len(tools) > 1

\* C8: two tools of one build whose return types are wrappers around the
\* same object/interface type T have byte-identical fieldSelections, equal
\* to the full cache entry of T.
C8_SameTypeSameSelection ==
    Built =>
        \A j, k \in 1..Len(tools) :
            LET b == tools[j].returnType.n IN
            (b = tools[k].returnType.n /\ IsObjectLike(S, b)) =>
                /\ tools[j].fieldSelection = tools[k].fieldSelection
                /\ Has(full, b)
                /\ tools[j].fieldSelection = full[b]

\* C9: from the start of a build on, both caches hold entries only for
\* object/interface type names of the schema being built, and after the
\* build every entry of both equals the entry the build from empty caches
\* produced.
C9_NoStaleEntries ==
    /\ pc # "idle" =>
           \A n \in DOMAIN full \cup DOMAIN minimal :
               n \in DOMAIN S.types /\ IsObjectLike(S, n)
    /\ (Built /\ snap.input = input) =>
           /\ \A n \in DOMAIN full : Has(snap.full, n) /\ full[n] = snap.full[n]
           /\ \A n \in DOMAIN minimal :
                  Has(snap.minimal, n) /\ minimal[n] = snap.minimal[n]

\* A build has returned that found in the full cache entries of another
\* schema for Query and for a further type name it shares with that schema.
C9_Witness ==
    Built /\ snap.input = input /\ "Query" \in stale /\ Cardinality(stale) > 1

C11_BracesBalanced ==
    /\ \A n \in DOMAIN full : Count(full[n], "{") = Count(full[n], "}")
    /\ \A n \in DOMAIN minimal : Count(minimal[n], "{") = Count(minimal[n], "}")
    /\ \A k \in 1..Len(tools) :
           Count(tools[k].fieldSelection, "{") = Count(tools[k].fieldSelection, "}")

\* A build of the three-type cycle has returned: the depth ceiling cut the
\* cycle at A, and the tool's selection nests four blocks.
C11_Witness ==
    /\ Built /\ input.s = 7 /\ Has(minimal, "A")
    /\ \E k \in 1..Len(tools) : Count(tools[k].fieldSelection, "{") >= 4

\* C12: after a build, for every tool and every argument the root field
\* declares, the argument's name is in inputSchema.required if and only if
\* the argument's type is non-null and the argument has no default value;
\* nothing else is in the list, and the key is absent when the list would
\* be empty.
C12_RequiredIffNonNullNoDefault ==
    Built =>
        \A k \in 1..Len(tools) :
            LET declared == RootFields(S)[k].field.args
                required == RequiredParams(tools[k])
            IN  /\ \A a \in Range(declared) :
                       (a.name \in Range(required)) <=>
                           (Head(a.type.w \o <<"">>) = NN /\ ~a.hasDefault)
                /\ Range(required) \subseteq {a.name : a \in Range(declared)}
                /\ ("required" \in DOMAIN tools[k].inputSchema) => required # <<>>

\* A build has returned a tool with a required argument, a non-null argument
\* that has a default and is not required, and a nullable argument.
C12_Witness ==
    /\ Built
    /\ \E k \in 1..Len(tools) :
          /\ RequiredParams(tools[k]) # <<>>
          /\ \E a, b \in Range(tools[k].args) :
                /\ IsNonNull(a.type) /\ a.hasDefault
                /\ a.name \notin Range(RequiredParams(tools[k]))
                /\ ~IsNonNull(b.type)

RECURSIVE RequiredRule(_, _, _)
\* In schema js, generated for type t, every object node lists as required
\* exactly the fields that are non-null and have no default, at every
\* nesting level (a placeholder for a circular reference has no fields).
RequiredRule(sch, js, t) ==
    IF t.w # <<>>
    THEN IF Head(t.w) = LI THEN RequiredRule(sch, js.items, OfType(t))
         ELSE RequiredRule(sch, js, OfType(t))
    ELSE IF TypeDef(sch, t.n).kind = "INPUT_OBJECT" /\ "properties" \in DOMAIN js
    THEN /\ \A f \in Range(Fields(sch, t.n)) :
              /\ (f.name \in Range(IF "required" \in DOMAIN js THEN js.required ELSE <<>>))
                     <=> (Head(f.type.w \o <<"">>) = NN /\ ~f.hasDefault)
              /\ RequiredRule(sch, js.properties[f.name], f.type)
    ELSE TRUE

JsonReturned == jpc = "done"

\* C13: in the JSON schema getJSONSchemaType returns for an argument type,
\* at every nesting level an input field's name is in its object node's
\* required list if and only if the field's type is non-null and the field
\* has no default value.
C13_NestedRequiredIffNonNullNoDefault ==
    JsonReturned => RequiredRule(JS, jret, jin.type)

\* C14: getJSONSchemaType terminates for every argument type: the outermost
\* call returns again and again; the input-object types being expanded are
\* pairwise different and are exactly the visited set; a call for a type
\* that is being expanded on the call path returns the placeholder at once,
\* without a new activation; and no step touches the selection caches.
C14_JsonSchemaTerminates ==
    /\ [](/\ \A a, b \in 1..Len(jstack) :
               (a # b /\ jstack[a].kind = "object" /\ jstack[b].kind = "object")
                   => jstack[a].t # jstack[b].t
           /\ jvisited = {jstack[c].t : c \in {d \in 1..Len(jstack) : jstack[d].kind = "object"}})
    /\ [][ ( /\ jpc = "call" /\ jcall.w = <<>>
              /\ \E a \in 1..Len(jstack) :
                    jstack[a].kind = "object" /\ jstack[a].t = jcall.n )
            => ( /\ jpc' = "ret"
                 /\ jret' = [type |-> "object",
                             description |-> "Circular reference to " \o jcall.n]
                 /\ jstack' = jstack /\ jvisited' = jvisited ) ]_vars
    /\ [][ (jpc \notin {"idle", "done"}) => UNCHANGED <<full, minimal>> ]_vars
    /\ []<>(jpc \in {"idle", "done"} /\ jstack = <<>> /\ jvisited = {})

\* The schema of ProductInput has been returned: DimsInput, expanded inside
\* it, holds the placeholder where it refers back to ProductInput.
C14_Witness ==
    /\ JsonReturned /\ jin.type.n = "ProductInput"
    /\ jret.properties["dims"].properties["of"] =
          [type |-> "object", description |-> "Circular reference to ProductInput"]

\* C15: the tools pushed so far, and the list a build returns, never hold
\* two tools of the same name.
C15_UniqueToolNames ==
    \A j, k \in 1..Len(tools) : j # k => tools[j].name # tools[k].name

\* A build has returned a tool for a Query field and a tool for a Mutation
\* field of the same field name.
C15_Witness ==
    /\ Built
    /\ \E j, k \in 1..Len(tools) :
          /\ tools[j].fieldName = tools[k].fieldName
          /\ tools[j].operationType = "query"
          /\ tools[k].operationType = "mutation"

\* The fields of a root type of the schema ("" when the schema has none).
DeclaredFields(sch, root) == IF root = "" THEN <<>> ELSE sch.types[root].fields

\* C16: the list a build returns is: one tool per field of the Query type,
\* in field order, named query_<fieldName> with operationType query, then
\* one per field of the Mutation type, named mutation_<fieldName> with
\* operationType mutation, each with fieldName the field's name; nothing
\* else (no tool for a Subscription field).
C16_OneToolPerRootField ==
    Built =>
        LET q == DeclaredFields(S, S.query)
            m == DeclaredFields(S, S.mutation)
        IN  /\ Len(tools) = Len(q) + Len(m)
            /\ \A k \in 1..Len(q) :
                   /\ tools[k].name = "query_" \o q[k].name
                   /\ tools[k].operationType = "query"
                   /\ tools[k].fieldName = q[k].name
            /\ \A k \in 1..Len(m) :
                   /\ tools[Len(q) + k].name = "mutation_" \o m[k].name
                   /\ tools[Len(q) + k].operationType = "mutation"
                   /\ tools[Len(q) + k].fieldName = m[k].name

\* A build of a schema with Query, Mutation and Subscription types has
\* returned tools of both operation types.
C16_Witness ==
    /\ Built /\ "Subscription" \in DOMAIN S.types
    /\ Len(tools) = 4
    /\ tools[1].operationType = "query" /\ tools[4].operationType = "mutation"
    /\ \A k \in 1..Len(tools) : tools[k].fieldName # "productAdded"

\* The request's tool (meaningful when the name is registered).
RequestedTool == registry[Find(registry, request.name)]
Registered(name) == \E k \in 1..Len(registry) : registry[k].name = name

\* The argument object holds param as an own property whose value is neither
\* null nor undefined.
Supplied(args, param) ==
    /\ args.kind = "object"
    /\ param \in DOMAIN args.own
    /\ args.own[param].t \notin {"undefined", "null"}

\* The required names of the tool that the arguments do not supply, in the
\* order of the required list.
NotSupplied(tool, args) ==
    SelectSeq(IF "required" \in DOMAIN tool.inputSchema
              THEN tool.inputSchema.required ELSE <<>>,
              LAMBDA param : ~Supplied(args, param))

\* C17: for a request that names a registered tool, what
\* validateRequiredParameters returned is exactly the required names that
\* are not supplied as an own, non-null, non-undefined property of the
\* arguments, all of them, in the order of the required list; an inherited
\* property does not supply, an own empty string does.
C17_MissingAreExactlyNotSupplied ==
    (server = "cli" /\ request # NoRequest /\ Registered(request.name)) =>
        missingParams = NotSupplied(RequestedTool, request.args)

\* The handler has answered a request for product(id: ID!, sku: String!)
\* whose arguments hold id as an own empty string and sku only through the
\* prototype: sku alone was found missing.
C17_Witness ==
    /\ Replied /\ server = "cli" /\ request.name = "query_product"
    /\ request.args.kind = "object"
    /\ "id" \in DOMAIN request.args.own /\ request.args.own["id"] = Str("")
    /\ "sku" \notin DOMAIN request.args.own /\ "sku" \in DOMAIN request.args.proto
    /\ missingParams = <<"sku">>

Contains(text, part) ==
    \E k \in 1..(Len(text) - Len(part) + 1) : SubSeq(text, k, k + Len(part) - 1) = part

\* C19: a request whose name is not the name of a registered tool is
\* answered with isError and a message containing 'Unknown tool: <name>',
\* and nothing is sent upstream for it, by the handler of cli.ts and by the
\* handler of http-server.ts.
C19_UnknownToolRejected ==
    (request # NoRequest /\ ~Registered(request.name)) =>
        /\ upstream = <<>>
        /\ reply.isError
        /\ Contains(reply.text, "Unknown tool: " \o request.name)

\* The GraphQL text of a type: starting from the name, each wrapper from the
\* innermost to the outermost adds '!' (non-null) or encloses in '[' ']'.
TypeTextOf(t) ==
    LET Wrap(text, k) == IF t.w[k] = NN THEN text \o "!" ELSE "[" \o text \o "]"
        Apply[k \in 0..Len(t.w)] ==
            IF k = 0 THEN t.n ELSE Wrap(Apply[k - 1], Len(t.w) + 1 - k)
    IN  Apply[Len(t.w)]

\* A text with every piece of white space replaced by one space.
Normalised(text) == [k \in 1..Len(text) |-> IF IsBlank(text[k]) THEN SP ELSE text[k]]

\* The root field a registered tool name stands for, as the schema declares
\* it.
DeclaredRoot(name) ==
    LET k == Find(registry, name)
        q == DeclaredFields(S, S.query)
        m == DeclaredFields(S, S.mutation)
    IN  IF k <= Len(q) THEN [op |-> "query", field |-> q[k]]
        ELSE [op |-> "mutation", field |-> m[k - Len(q)]]

C21_UpstreamFailureSurfaced ==
    (Replied /\ upstream # <<>> /\ thrown # NoError) =>
        /\ reply.isError
        /\ Contains(reply.text, thrown.message)
        /\ (thrown.response.errors # <<>>) =>
               /\ "errors" \in DOMAIN reply
               /\ reply.errors = thrown.response.errors

\* C22: once loadTools has assigned the registry, no step (ListTools, a
\* CallTool request that is unknown, fails validation, is sent, resolves or
\* rejects, a delivery, connecting the transport) changes the tool list,
\* any tool descriptor or either selection cache; the registry is the list
\* the build returned and ListTools returns it.
C22_ReadOnlyAfterBuild ==
    /\ [][ (phase \in {"loaded", "connected"}) =>
             /\ registry' = registry
             /\ full' = full
             /\ minimal' = minimal ]_vars
    /\ []( (phase \in {"loaded", "connected"}) =>
             /\ registry = tools
             /\ (listed # NoList) => (listed.tools = registry) )

\* A CallTool request has failed upstream while the answer to a ListTools
\* request was still being sent.
C22_Witness ==
    /\ Replied /\ upstream # <<>> /\ reply.isError
    /\ listed # NoList /\ Len(listed.tools) > 1
    /\ DOMAIN full # {} /\ DOMAIN minimal # {}

\* C23: when the introspection payload is malformed or has no query root
\* type, generateMCPToolsFromSchema returns no tool list, loadTools fails
\* and the server's tool list stays as the constructor left it.
C23_NoRegistryFromBadPayload ==
    (IsMalformed(input) \/ (input.s > 0 /\ Schema(input).query = "")) =>
        /\ ~Built
        /\ registry = <<>>
        /\ phase \notin {"loaded", "connected"}

\* The names of the fields a type declares.
DeclaredNames(sch, n) == {f.name : f \in Range(sch.types[n].fields)}

\* C24: every entry of the minimal cache is '{ documentId }' if its type
\* declares a field named documentId, otherwise '{ id }' if it declares a
\* field named id, otherwise the empty string; a minimal selection that is
\* computed for a self-referencing field is in the cache after the step;
\* and while a build runs (the caches are cleared only when one starts) an
\* entry is never removed or changed.
C24_MinimalSelection ==
    /\ [](\A n \in DOMAIN minimal :
             minimal[n] =
                 IF "documentId" \in DeclaredNames(S, n)
                 THEN <<"{", " ", "documentId", " ", "}">>
                 ELSE IF "id" \in DeclaredNames(S, n)
                 THEN <<"{", " ", "id", " ", "}">>
                 ELSE <<>>)
    /\ [][ (stack # <<>> /\ Top.k <= Len(Fields(S, Top.t))
             /\ StripWrappers(Fields(S, Top.t)[Top.k].type).n = Top.t)
            => Top.t \in DOMAIN minimal' ]_vars
    /\ [][ (pc \in {"warm", "tools"}) =>
             \A n \in DOMAIN minimal :
                 n \in DOMAIN minimal' /\ minimal'[n] = minimal[n] ]_vars

\* A build has returned with minimal selections cached for User, which
\* declares documentId and id, and for Post, which declares documentId.
C24_Witness ==
    /\ Built /\ input.s = 2
    /\ Has(minimal, "User") /\ Has(minimal, "Post")
    /\ {"documentId", "id"} \subseteq DeclaredNames(S, "User")
    /\ minimal["User"] = <<"{", " ", "documentId", " ", "}">>

\* A text without its white space.
Solid(text) == SelectSeq(text, LAMBDA piece : ~IsBlank(piece))

\* '{ id posts { id author { id } } }' without its white space.
BlogSelection ==
    <<"{", "id", "posts", "{", "id", "author", "{", "id", "}", "}", "}">>

\* C25: for Query.user(id: ID!): User, User {id posts: [Post]},
\* Post {id author: User}: the tool query_user is registered and its
\* fieldSelection, white space ignored, is '{ id posts { id author { id } } }';
\* a call that supplies id sends 'query userOperation($id: ID!) { user(id: $id)
\* { id posts { id author { id } } } }' upstream; a call that does not is
\* answered with the missing-parameter failure that names id.
C25_BlogScenario ==
    (server = "cli" /\ input.s = 1 /\ phase \in {"loaded", "connected"}) =>
        /\ Registered("query_user")
        /\ Solid(registry[Find(registry, "query_user")].fieldSelection) = BlogSelection
        /\ (request.name = "query_user" /\ Supplied(request.args, "id")) =>
               /\ upstream # <<>>
               /\ Solid(upstream[1].query) =
                     <<"query", "userOperation", "(", "$", "id", ": ", "ID!", ")", "{",
                       "user", "(", "id", ": ", "$", "id", ")">> \o BlogSelection \o <<"}">>
        /\ (request.name = "query_user" /\ ~Supplied(request.args, "id")) =>
               /\ upstream = <<>>
               /\ reply.isError
               /\ Contains(reply.text, "Missing required parameters: id")

\* C26: the selection handed to generateFullFieldSelection for a nested
\* object/interface field is a full cache entry (a cache hit, the entry the
\* depth ceiling writes, or the entry a finished field loop writes); no full
\* cache entry of a type that declares fields is the empty string, so the
\* fall-back to the bare field name happens for fieldless types only.
C26_EmptyOnlyForFieldless ==
    \A n \in DOMAIN full : (full[n] = <<>>) => (Fields(S, n) = <<>>)

\* How many blocks are open after the first k pieces of a selection, and
\* the deepest nesting of blocks in it.
OpenAt(sel, k) ==
    Cardinality({j \in 1..k : sel[j] = "{"}) - Cardinality({j \in 1..k : sel[j] = "}"})
Nesting(sel) ==
    IF sel = <<>> THEN 0
    ELSE CHOOSE d \in 0..Len(sel) :
            /\ \E k \in 1..Len(sel) : OpenAt(sel, k) = d
            /\ \A k \in 1..Len(sel) : OpenAt(sel, k) <= d

\* C27: in every full cache entry the blocks are nested at most six deep:
\* the type's own block, at most four expanded sub-selections one inside
\* the other, and at most one minimal selection inside the last, whatever
\* the schema and the order of the type map.
C27_NestingBounded ==
    \A n \in DOMAIN full : Nesting(full[n]) <= 6

\* C28: the transport is connected only from the state in which loadTools
\* has returned; whenever it is connected, and whenever a ListTools or
\* CallTool request is being handled, the build has returned and the
\* registry is the list it returned; once loadTools has failed, start() has
\* rejected for good: the registry stays empty, no transport is connected
\* and no request is handled.
C28_ConnectAfterLoad ==
    /\ [][ (phase # "connected" /\ phase' = "connected") => phase = "loaded" ]_vars
    /\ []( (phase = "connected" \/ request # NoRequest \/ listed # NoList) =>
             /\ phase = "connected"
             /\ pc = "done" /\ stack = <<>>
             /\ registry = tools )
    /\ [][ (phase = "failed") => (phase' = "failed") ]_vars
    /\ []( (phase = "failed") =>
             registry = <<>> /\ request = NoRequest /\ listed = NoList )

\* A request is being answered by a connected server whose registry is the
\* finished build's list of several tools.
C28_Witness ==
    /\ phase = "connected" /\ Replied /\ listed # NoList
    /\ pc = "done" /\ Len(registry) > 1

\* The requests that are to be refused: a POST with a session id that is
\* not a key of the map, a POST with no session id that is not an
\* initialize request, a GET or DELETE with a missing or unknown session id.
Refusable(r, map) ==
    \/ r.method = "POST" /\ r.sid # "" /\ r.sid \notin DOMAIN map
    \/ r.method = "POST" /\ r.sid = "" /\ ~r.initialize
    \/ r.method \in {"GET", "DELETE"} /\ (r.sid = "" \/ r.sid \notin DOMAIN map)

\* C29: a request that carries a session id is handed to a transport only
\* if the id is a key of the map at that moment, and then to the transport
\* stored under it; the keys of the map are exactly the session ids of the
\* transports that have been initialized and not closed, and no request
\* changes the map; every request to be refused is answered with 400 and
\* leaves the map and the transports as they were.
C29_SessionRouting ==
    /\ [][ (response' # response /\ response'.sid # "" /\ response'.routed # 0) =>
             /\ response'.sid \in DOMAIN transports
             /\ transports[response'.sid] = response'.routed ]_vars
    /\ [](/\ DOMAIN transports =
               {sessions[t].sid : t \in {u \in 1..Len(sessions) : sessions[u].state = "open"}}
           /\ \A sid \in DOMAIN transports : sessions[transports[sid]].sid = sid)
    /\ [][ (response' # response) => (transports' = transports) ]_vars
    /\ [][ (response' # response /\ Refusable(response', transports)) =>
             /\ response'.status = 400
             /\ transports' = transports
             /\ sessions' = sessions ]_vars

\* C30: a build of the schema the first build was given, with the type map
\* in any order, ends with the same full cache entry for every type and the
\* same fieldSelection for every tool as the first build (the same even
\* when white space, which the nesting depth of the generating call
\* decides, is left out of the comparison).
C30_OrderIndependent ==
    (Built /\ snap.input.s = input.s) =>
        /\ DOMAIN full = DOMAIN snap.full
        /\ \A n \in DOMAIN full : Solid(full[n]) = Solid(snap.full[n])
        /\ Len(tools) = Len(snap.tools)
        /\ \A k \in 1..Len(tools) :
               Solid(tools[k].fieldSelection) = Solid(snap.tools[k].fieldSelection)

====
